---- MODULE Spec2Model ----
(***************************************************************************)
(* Model of AI-Content-Generator/main.py: the Flask handlers               *)
(* generate_posts, upload_image, export_posts and index over the per-user  *)
(* session, and the post-processing function                               *)
(* generate_multiple_social_media_posts (hashtag normalisation, image      *)
(* generation per post, padding and slicing).                              *)
(*                                                                         *)
(* Python strings whose characters the code inspects (hashtags, menu text, *)
(* num_posts, file names) are sequences of one-character strings.  Other   *)
(* strings are TLA+ strings.  The completion API and the image API are the *)
(* environment: their answers are inputs of the actions.                   *)
(***************************************************************************)
EXTENDS Integers, Sequences, FiniteSets, TLC

VARIABLES
    sessionKeys,        \* keys present in the Flask session
    current_posts,      \* session['current_posts']
    current_menu_text,  \* session['current_menu_text']
    current_language,   \* session['current_language']
    uploaded_images,    \* session['uploaded_images']: post index -> file name
    uuidCount,          \* number of upload file names drawn from uuid.uuid4()
    request,            \* the request being answered (handler and its inputs)
    response,           \* the response the handler returned
    lastGood,           \* history: posts of the latest successful generation, later uploads applied
    call                \* one call of generate_multiple_social_media_posts on its own

vars == <<sessionKeys, current_posts, current_menu_text, current_language,
          uploaded_images, uuidCount, request, response, lastGood, call>>

sessionVars == <<sessionKeys, current_posts, current_menu_text, current_language,
                 uploaded_images>>

(***************************************************************************)
(* Bounds of the model.                                                    *)
(***************************************************************************)
MaxTags == 4        \* longest hashtags list the model returns for one post
MaxEntries == 3     \* longest "posts" array the model returns
MaxNum == 2         \* largest num_posts of a direct call of the generator
MaxIndex == 1       \* largest post_index of an upload request
MaxUploads == 2     \* accepted uploads per session

(***************************************************************************)
(* Python string helpers: str.strip, str.lstrip('#'), str.lower, join.     *)
(***************************************************************************)
Whitespace == {" ", "\t", "\n"}

UpperAlpha == <<"A","B","C","D","E","F","G","H","I","J","K","L","M",
                "N","O","P","Q","R","S","T","U","V","W","X","Y","Z">>
LowerAlpha == <<"a","b","c","d","e","f","g","h","i","j","k","l","m",
                "n","o","p","q","r","s","t","u","v","w","x","y","z">>

UpperSet == {UpperAlpha[i] : i \in 1..26}
LowerOf == [c \in UpperSet |-> LowerAlpha[CHOOSE i \in 1..26 : UpperAlpha[i] = c]]

LowerChar(c) == IF c \in UpperSet THEN LowerOf[c] ELSE c

Lower(s) == [i \in 1..Len(s) |-> LowerChar(s[i])]

RECURSIVE LStripSet(_, _)
LStripSet(s, drop) ==
    IF s # <<>> /\ Head(s) \in drop THEN LStripSet(Tail(s), drop) ELSE s

RECURSIVE RStripSet(_, _)
RStripSet(s, drop) ==
    IF s # <<>> /\ s[Len(s)] \in drop
    THEN RStripSet(SubSeq(s, 1, Len(s) - 1), drop)
    ELSE s

Strip(s) == RStripSet(LStripSet(s, Whitespace), Whitespace)

RECURSIVE Join(_, _)
Join(sep, parts) ==
    IF parts = <<>> THEN <<>>
    ELSE IF Len(parts) = 1 THEN parts[1]
    ELSE parts[1] \o sep \o Join(sep, Tail(parts))

Min(a, b) == IF a < b THEN a ELSE b
Max(a, b) == IF a > b THEN a ELSE b

\* Python posts[:n], for any integer n
Slice(s, n) ==
    IF n >= 0 THEN SubSeq(s, 1, Min(n, Len(s)))
    ELSE SubSeq(s, 1, Max(0, Len(s) + n))

(***************************************************************************)
(* JSON values that can stand in a hashtags list: a string, null, a number.*)
(***************************************************************************)
PyStr(s) == [t |-> "str", s |-> s]
PyNone == [t |-> "none", s |-> <<"N","o","n","e">>]
PyInt0 == [t |-> "int", s |-> <<"0">>]
PyInt7 == [t |-> "int", s |-> <<"7">>]

\* `if tag:`
Truthy(v) ==
    CASE v.t = "str" -> v.s # <<>>
      [] v.t = "int" -> v.s # <<"0">>
      [] OTHER -> FALSE

\* str(tag)
Str(v) == v.s

(***************************************************************************)
(* Hashtag post-processing of one model-returned post (main.py 260-294).   *)
(***************************************************************************)
BerlinEats == <<"B","e","r","l","i","n","E","a","t","s">>
Mitte == <<"M","i","t","t","e">>
Foodie == <<"f","o","o","d","i","e">>
Delicious == <<"d","e","l","i","c","i","o","u","s">>
Restaurant == <<"r","e","s","t","a","u","r","a","n","t">>

berlin_tags ==
    { <<"b","e","r","l","i","n","e","a","t","s">>,
      <<"m","i","t","t","e">>,
      <<"k","r","e","u","z","b","e","r","g">>,
      <<"b","e","r","l","i","n","f","o","o","d","i","e">>,
      <<"b","e","r","l","i","n">> }

\* clean_tag = str(tag).strip().lstrip('#')
CleanTag(tag) == LStripSet(Strip(Str(tag)), {"#"})

\* the loop that fills normalized_tags
NormalizeTags(hashtags) ==
    LET cleaned == [i \in 1..Len(hashtags) |->
                      IF Truthy(hashtags[i]) THEN CleanTag(hashtags[i]) ELSE <<>>]
    IN SelectSeq(cleaned, LAMBDA c : c # <<>>)

HasBerlinTag(tags) == \E i \in 1..Len(tags) : Lower(tags[i]) \in berlin_tags

\* if not has_berlin_tag: replace the last tag, or append one
EnsureBerlinTag(tags) ==
    IF HasBerlinTag(tags) THEN tags
    ELSE IF Len(tags) >= 3 THEN [tags EXCEPT ![Len(tags)] = BerlinEats]
    ELSE Append(tags, BerlinEats)

FirstThree_NoSlice(tags) == tags

\* hashtags = normalized_tags[:3]
FirstThree(tags) == Slice(tags, 3)

\* while len(hashtags) < 3: append foodie / delicious / restaurant
RECURSIVE PadHashtags(_)
PadHashtags(hashtags) ==
    IF Len(hashtags) >= 3 THEN hashtags
    ELSE LET low == {Lower(hashtags[i]) : i \in 1..Len(hashtags)}
         IN PadHashtags(Append(hashtags,
                IF Foodie \notin low THEN Foodie
                ELSE IF Delicious \notin low THEN Delicious
                ELSE Restaurant))

DefaultHashtags == <<BerlinEats, Foodie, Delicious>>
FallbackHashtags == <<BerlinEats, Foodie, Mitte>>

\* field: the "hashtags" entry of post_data; t is "missing", "list" or "other"
PostHashtags(field) ==
    LET hashtags == IF field.t = "missing" THEN <<>> ELSE field.v
    IN IF field.t \in {"missing", "list"}
       THEN PadHashtags(FirstThree(EnsureBerlinTag(NormalizeTags(hashtags))))
       ELSE DefaultHashtags

(***************************************************************************)
(* Image generation (main.py 352-370) and its use per post (296-303,       *)
(* 321-327).  outcome is what the image API does on this call: "url"       *)
(* (data with a URL), "empty" (no data) or "error" (the call raises).      *)
(***************************************************************************)
NoneUrl == [kind |-> "None", id |-> 0, ext |-> <<>>]
DalleUrl(k) == [kind |-> "dalle", id |-> k, ext |-> <<>>]
UploadedUrl(filename) == [kind |-> "/uploaded_image/", id |-> filename.id, ext |-> filename.ext]

\* generate_food_image: the k-th image call of this request
generate_food_image(outcome, k) ==
    IF outcome = "url"
    THEN [raised |-> FALSE, url |-> DalleUrl(k)]
    ELSE [raised |-> TRUE, url |-> NoneUrl]

ImageOrNone_Propagate(outcome, k) == generate_food_image(outcome, k)

\* try: image_url = generate_food_image(...)  except Exception: (image_url stays None)
ImageOrNone(outcome, k) ==
    [raised |-> FALSE,
     url |-> IF generate_food_image(outcome, k).raised THEN NoneUrl
             ELSE generate_food_image(outcome, k).url]

(***************************************************************************)
(* generate_multiple_social_media_posts (main.py 177-350).                 *)
(*                                                                         *)
(* api is the completion API's answer: kind "api_error" (the call raises), *)
(* "no_content" (message.content is None), "bad_json" (json.loads raises), *)
(* "not_object" (the JSON is no object) or "ok", with posts the value of   *)
(* its "posts" key ([t |-> "missing" | "list" | "not_iterable", v]).  An   *)
(* element of the list is a record: isDict, hasCaption, caption, hashtags, *)
(* image_prompt, caption_german, variant ("" stands for a key that is      *)
(* missing or empty: .get gives the same falsy default).  img[k] is the    *)
(* image API's outcome on the k-th image call.  post_id, a fresh uuid4,    *)
(* is modelled by the order in which the call draws it.                    *)
(***************************************************************************)
\* the fallback texts, without their emoji and umlaut
DefaultPrompt == "Professional food photography of restaurant dish, appetizing and well-plated"
FallbackCaption == "Check out our amazing menu! Come visit us today!"
FallbackGerman == "Schaut euch unser fantastisches Menue an! Besucht uns heute!"

\* actual_posts_needed
PostsNeeded(num_posts, ab_test_mode) ==
    IF ab_test_mode THEN num_posts * 2 ELSE num_posts

\* if isinstance(post_data, dict) and "caption" in post_data
IsValidEntry(post_data) == post_data.isDict /\ post_data.hasCaption

\* the post built from one valid entry (main.py 296-316)
MakePost(post_data, language, image_url, uuid) ==
    [caption |-> post_data.caption,
     hashtags |-> PostHashtags(post_data.hashtags),
     image_url |-> image_url,
     image_prompt |-> post_data.image_prompt,
     variant |-> post_data.variant,
     post_id |-> uuid,
     has_caption_german |-> (language = "both" /\ post_data.caption_german # ""),
     caption_german |-> IF language = "both" /\ post_data.caption_german # ""
                        THEN post_data.caption_german ELSE ""]

\* the fallback post of the padding loop (main.py 329-339)
FallbackPost(language, image_url, uuid) ==
    [caption |-> FallbackCaption,
     hashtags |-> FallbackHashtags,
     image_url |-> image_url,
     image_prompt |-> DefaultPrompt,
     variant |-> "casual",
     post_id |-> uuid,
     has_caption_german |-> (language = "both"),
     caption_german |-> IF language = "both" THEN FallbackGerman ELSE ""]

\* the loop state: posts built so far, image calls made, and whether an
\* exception is on its way to the function's outer except
AfterPost(st, post, r, imageCalled) ==
    [posts |-> IF r.raised THEN st.posts ELSE Append(st.posts, post),
     images |-> IF imageCalled THEN st.images + 1 ELSE st.images,
     raised |-> r.raised]

\* one valid entry: image (if it has a prompt), post, append (main.py 296-318)
AddEntryPost(st, post_data, language, r) ==
    AfterPost(st, MakePost(post_data, language, r.url, Len(st.posts) + 1), r,
              post_data.image_prompt # "")

\* for i, post_data in enumerate(posts_data): ...
RECURSIVE ProcessEntries(_, _, _, _, _)
ProcessEntries(posts_data, i, language, img, st) ==
    IF i > Len(posts_data) \/ st.raised THEN st
    ELSE IF ~IsValidEntry(posts_data[i])
    THEN ProcessEntries(posts_data, i + 1, language, img, st)
    ELSE ProcessEntries(posts_data, i + 1, language, img,
             AddEntryPost(st, posts_data[i], language,
                 IF posts_data[i].image_prompt # ""
                 THEN ImageOrNone(img[st.images + 1], st.images + 1)
                 ELSE [raised |-> FALSE, url |-> NoneUrl]))

\* one fallback post: image, post, append (main.py 322-341)
AddFallbackPost(st, language, r) ==
    AfterPost(st, FallbackPost(language, r.url, Len(st.posts) + 1), r, TRUE)

\* while len(posts) < actual_posts_needed: append a fallback post
RECURSIVE PadPosts(_, _, _, _)
PadPosts(needed, language, img, st) ==
    IF Len(st.posts) >= needed \/ st.raised THEN st
    ELSE PadPosts(needed, language, img,
             AddFallbackPost(st, language, ImageOrNone(img[st.images + 1], st.images + 1)))

ReturnPosts_NoSlice(posts, needed) == posts

\* return posts[:actual_posts_needed]
ReturnPosts(posts, needed) == Slice(posts, needed)

\* raise ValueError(msg) from the function's except clauses (main.py 345-350)
Raised(msg, images) ==
    [raised |-> TRUE, exc |-> "ValueError", msg |-> msg, posts |-> <<>>, completion_calls |-> 1, image_calls |-> images]

\* return posts[:actual_posts_needed], unless an exception reached the outer except
FinishCall(padded, needed) ==
    IF padded.raised
    THEN Raised("Failed to generate social media posts", padded.images)
    ELSE [raised |-> FALSE, exc |-> "", msg |-> "",
          posts |-> ReturnPosts(padded.posts, needed),
          completion_calls |-> 1, image_calls |-> padded.images]

generate_multiple_social_media_posts(num_posts, language, ab_test_mode, api, img) ==
    CASE api.kind = "bad_json" ->
           Raised("Invalid response format from AI service", 0)
      [] api.kind \in {"api_error", "no_content", "not_object"} ->
           Raised("Failed to generate social media posts", 0)
      [] api.kind = "ok" /\ api.posts.t = "not_iterable" ->
           Raised("Failed to generate social media posts", 0)
      [] OTHER ->
           FinishCall(
               PadPosts(PostsNeeded(num_posts, ab_test_mode), language, img,
                   ProcessEntries(IF api.posts.t = "missing" THEN <<>> ELSE api.posts.v,
                                  1, language, img,
                                  [posts |-> <<>>, images |-> 0, raised |-> FALSE])),
               PostsNeeded(num_posts, ab_test_mode))

(***************************************************************************)
(* Answers of the completion API and of the image API used as inputs.      *)
(***************************************************************************)
TagValues ==
    { PyNone,
      PyInt0,
      PyInt7,
      PyStr(<<>>),
      PyStr(<<"#">>),
      PyStr(<<" ","#","M","i","t","t","e"," ">>),
      PyStr(<<"p","i","z","z","a">>),
      PyStr(<<"#","F","o","o","d","i","e">>),
      PyStr(<<"D","e","l","i","c","i","o","u","s">>) }

TagLists == UNION { [1..n -> TagValues] : n \in 0..MaxTags }

HashtagFields ==
    { [t |-> "missing", v |-> <<>>], [t |-> "other", v |-> <<>>] }
    \cup { [t |-> "list", v |-> l] : l \in TagLists }

Entry(caption, hashtags, image_prompt, caption_german, variant) ==
    [isDict |-> TRUE, hasCaption |-> TRUE, caption |-> caption, hashtags |-> hashtags,
     image_prompt |-> image_prompt, caption_german |-> caption_german, variant |-> variant]

\* a JSON value that is no object, and an object without a "caption" key
NotADict == [Entry("", [t |-> "missing", v |-> <<>>], "", "", "") EXCEPT
                !.isDict = FALSE, !.hasCaption = FALSE]
NoCaption == [Entry("", [t |-> "missing", v |-> <<>>], "photo", "", "") EXCEPT
                !.hasCaption = FALSE]
EntryA == Entry("Try our pizza",
                [t |-> "list", v |-> <<PyStr(<<"p","i","z","z","a">>),
                                       PyStr(<<" ","#","M","i","t","t","e"," ">>)>>],
                "photo of pizza", "Probiert unsere Pizza", "casual")
EntryB == Entry("Soup of the day", [t |-> "missing", v |-> <<>>], "", "", "")

Entries == {NotADict, NoCaption, EntryA, EntryB}

ApiOk(posts_data) == [kind |-> "ok", posts |-> [t |-> "list", v |-> posts_data]]
ApiFailure(kind) == [kind |-> kind, posts |-> [t |-> "missing", v |-> <<>>]]

ApiFailures ==
    { ApiFailure("api_error"), ApiFailure("no_content"), ApiFailure("bad_json"),
      ApiFailure("not_object"),
      [kind |-> "ok", posts |-> [t |-> "not_iterable", v |-> <<>>]] }

Languages == {"english", "german", "both"}

\* image API scripts over n calls: every call answers, one call fails, every call fails
ImgScripts(n) ==
    { [k \in 1..n |-> "url"], [k \in 1..n |-> "error"] }
    \cup { [k \in 1..n |-> IF k = f THEN o ELSE "url"] : f \in 1..n, o \in {"empty", "error"} }

NoResult == [raised |-> FALSE, exc |-> "", msg |-> "", posts |-> <<>>, completion_calls |-> 0, image_calls |-> 0]

(***************************************************************************)
(* The session machine's initial state (a fresh session, nothing answered).*)
(***************************************************************************)
NoBody == [csv |-> <<>>, json_posts |-> <<>>, menu_text |-> <<>>, language |-> ""]

NoResponse ==
    [handler |-> "", kind |-> "", status |-> 0, flash |-> "", target |-> "",
     posts |-> <<>>, body |-> NoBody, url |-> NoneUrl,
     completion_calls |-> 0, image_calls |-> 0]

NoFile == [present |-> FALSE, filename |-> <<>>]

NoRequest ==
    [handler |-> "", menu_text |-> <<>>, num_posts |-> <<>>, api |-> "",
     file |-> NoFile, post_index |-> 0, format |-> ""]

NoCall == [pc |-> "idle", num_posts |-> 0, language |-> "", ab_test_mode |-> FALSE,
           api |-> ApiFailure("api_error"), img |-> <<>>, result |-> NoResult]

SessionInit ==
    /\ sessionKeys = {}
    /\ current_posts = <<>>
    /\ current_menu_text = <<>>
    /\ current_language = ""
    /\ uploaded_images = <<>>
    /\ uuidCount = 0
    /\ request = NoRequest
    /\ response = NoResponse
    /\ lastGood = <<>>

(***************************************************************************)
(* The generator on its own: Init draws the arguments and the APIs'        *)
(* answers, CallGenerator applies the function.                            *)
(***************************************************************************)
CallGenerator ==
    /\ call.pc = "ready"
    /\ call' = [call EXCEPT
                  !.pc = "done",
                  !.result = generate_multiple_social_media_posts(
                                 call.num_posts, call.language, call.ab_test_mode,
                                 call.api, call.img)]
    /\ UNCHANGED <<sessionVars, uuidCount, request, response, lastGood>>

NextCall == CallGenerator

\* a call for two posts answered with one post, over every hashtags value
InitTags ==
    /\ SessionInit
    /\ \E h \in HashtagFields :
         call = [pc |-> "ready", num_posts |-> 2, language |-> "english",
                 ab_test_mode |-> FALSE,
                 api |-> ApiOk(<<Entry("Try our pizza", h, "photo of pizza", "", "")>>),
                 img |-> [k \in 1..2 |-> "url"],
                 result |-> NoResult]

SpecTags == InitTags /\ [][NextCall]_vars

InitGen ==
    /\ SessionInit
    /\ \E n \in 1..MaxNum, language \in Languages, ab \in BOOLEAN,
          api \in ApiFailures \cup { ApiOk(d) : d \in UNION { [1..m -> Entries] : m \in 0..MaxEntries } }
                  \cup { [kind |-> "ok", posts |-> [t |-> "missing", v |-> <<>>]] },
          img \in ImgScripts(MaxEntries + 2 * MaxNum) :
         call = [pc |-> "ready", num_posts |-> n, language |-> language,
                 ab_test_mode |-> ab, api |-> api, img |-> img, result |-> NoResult]

SpecGen == InitGen /\ [][NextCall]_vars

(***************************************************************************)
(* Properties of the generator.                                            *)
(***************************************************************************)
Returned == call.pc = "done" /\ ~call.result.raised

\* C1: every post the generator returns carries exactly three hashtags, whatever
\* the hashtags value of the model's post (a list of any length, with empty or
\* '#'-only entries, no list, no key), and so does a padded fallback post.
C1_ExactlyThreeHashtags ==
    Returned =>
        \A i \in 1..Len(call.result.posts) : Len(call.result.posts[i].hashtags) = 3

\* a returned call whose model post had more than three usable tags, next to a fallback post
C1_Witness ==
    /\ Returned
    /\ call.api.posts.v[1].hashtags.t = "list"
    /\ Len(NormalizeTags(call.api.posts.v[1].hashtags.v)) > 3
    /\ Len(call.result.posts) = 2
    /\ call.result.posts[2].caption = FallbackCaption
    /\ \A i \in 1..2 : Len(call.result.posts[i].hashtags) = 3

\* C2: every post the generator returns has, among its final hashtags, one that
\* case-insensitively equals a tag of the Berlin locality list.
C2_OneBerlinTag ==
    Returned =>
        \A i \in 1..Len(call.result.posts) : HasBerlinTag(call.result.posts[i].hashtags)

ValidEntries(api) ==
    IF api.posts.t = "list" THEN SelectSeq(api.posts.v, IsValidEntry) ELSE <<>>

\* C4: a call that returns, returns exactly num_posts posts (2 * num_posts in A/B
\* mode): the model's valid posts in order, cut to that number, then fallback posts.
C4_ExactCount ==
    Returned =>
        LET needed == IF call.ab_test_mode THEN 2 * call.num_posts ELSE call.num_posts
            valid == ValidEntries(call.api)
            posts == call.result.posts
        IN /\ Len(posts) = needed
           /\ \A k \in 1..Len(posts) :
                IF k <= Len(valid) THEN posts[k].caption = valid[k].caption
                ELSE posts[k].caption = FallbackCaption

\* a returned call whose answer held a skipped entry and more valid posts than asked for
C4_Witness ==
    /\ Returned
    /\ call.api.posts.t = "list"
    /\ \E i \in 1..Len(call.api.posts.v) : ~IsValidEntry(call.api.posts.v[i])
    /\ Len(ValidEntries(call.api)) > Len(call.result.posts)
    /\ Len(call.result.posts) = call.num_posts

\* C7: a failing image call never fails the generation: the call returns what it
\* returns when every image call answers, except that the posts whose image call
\* failed have image_url None.
C7_ImageFailureTolerated ==
    (call.pc = "done" /\ call.api \notin ApiFailures) =>
        LET ref == generate_multiple_social_media_posts(
                       call.num_posts, call.language, call.ab_test_mode, call.api,
                       [k \in DOMAIN call.img |-> "url"])
            got == call.result
        IN /\ ~got.raised
           /\ Len(got.posts) = Len(ref.posts)
           /\ \A k \in 1..Len(ref.posts) :
                LET r == ref.posts[k]
                IN got.posts[k] =
                     [r EXCEPT !.image_url =
                         IF r.image_url # NoneUrl /\ call.img[r.image_url.id] = "url"
                         THEN r.image_url ELSE NoneUrl]

\* a model post and a fallback post lost their image and a later post kept its own
C7_Witness ==
    /\ Returned
    /\ \E i, j \in 1..Len(call.result.posts) :
         /\ i < j
         /\ call.result.posts[i].image_prompt # ""
         /\ call.result.posts[i].image_url = NoneUrl
         /\ call.result.posts[j].image_url # NoneUrl
    /\ \E i \in 1..Len(call.result.posts) :
         /\ call.result.posts[i].caption = FallbackCaption
         /\ call.result.posts[i].image_url = NoneUrl

(***************************************************************************)
(* Request inputs of the session machine.                                  *)
(***************************************************************************)
Digits == <<"0","1","2","3","4","5","6","7","8","9">>
IsDigit(c) == \E d \in 1..10 : Digits[d] = c
DigitValue(c) == (CHOOSE d \in 1..10 : Digits[d] = c) - 1

RECURSIVE DecimalValue(_)
DecimalValue(s) ==
    IF s = <<>> THEN 0
    ELSE 10 * DecimalValue(SubSeq(s, 1, Len(s) - 1)) + DigitValue(s[Len(s)])

\* int(text): surrounding whitespace, an optional sign, decimal digits; else ValueError
ParseInt(text) ==
    LET t == Strip(text)
        signed == t # <<>> /\ Head(t) \in {"+", "-"}
        digits == IF signed THEN Tail(t) ELSE t
    IN IF digits # <<>> /\ \A i \in 1..Len(digits) : IsDigit(digits[i])
       THEN [ok |-> TRUE,
             value |-> IF signed /\ Head(t) = "-" THEN 0 - DecimalValue(digits)
                       ELSE DecimalValue(digits)]
       ELSE [ok |-> FALSE, value |-> 0]

MinPosts == 1
MaxPosts == 10

MenuInputs == { <<>>, <<" ">>, <<" ","p","i","z","z","a"," ">> }

\* the form's num_posts field (a missing field is read as 3, like the text "3")
NumInputs == { <<"1">>, <<" ","2">>, <<"0">>, <<"1","1">>, <<"x">> }

\* the form's language field
LangInputs == {"english", "both"}

SessionApis ==
    { ApiFailure("api_error"), ApiFailure("bad_json"), ApiOk(<<NotADict, EntryA, EntryB>>) }

SessionImgs(n) == { [k \in 1..n |-> "url"], [k \in 1..n |-> "error"] }

FileInputs ==
    { NoFile,
      [present |-> TRUE, filename |-> <<>>],
      [present |-> TRUE, filename |-> <<"a",".","b",".","P","N","G">>],
      [present |-> TRUE, filename |-> <<"a",".","e","x","e">>],
      [present |-> TRUE, filename |-> <<"p","n","g">>] }

Formats == {"json", "csv", "xml"}

(***************************************************************************)
(* upload_image helpers (main.py 19, 84-86, 100).                          *)
(***************************************************************************)
ALLOWED_EXTENSIONS ==
    { <<"p","n","g">>, <<"j","p","g">>, <<"j","p","e","g">>, <<"g","i","f">>,
      <<"w","e","b","p">> }

\* filename.rsplit('.', 1)[1], for a filename that holds a '.'
RSplitLast(filename) ==
    LET last == CHOOSE i \in 1..Len(filename) :
                   /\ filename[i] = "."
                   /\ \A j \in (i + 1)..Len(filename) : filename[j] # "."
    IN SubSeq(filename, last + 1, Len(filename))

allowed_file(filename) ==
    /\ \E i \in 1..Len(filename) : filename[i] = "."
    /\ Lower(RSplitLast(filename)) \in ALLOWED_EXTENSIONS

\* str(uuid.uuid4()) + '.' + extension: the n-th name drawn in this session
UploadName(n, filename) == [id |-> n, ext |-> Lower(RSplitLast(filename))]

(***************************************************************************)
(* Responses.  flash() is recorded on the response that carries it.        *)
(***************************************************************************)
MsgInvalidNumber == "Invalid number of posts. Please enter a valid number."
MsgSorry == "Sorry, we encountered an issue generating your posts. Please try again."
MsgNoMenu == "Please enter your restaurant menu text."
MsgRange == "Number of posts must be between 1 and 10."
MsgNoPosts == "Failed to generate posts. Please try again."
MsgNoExport == "No posts to export. Please generate posts first."

FlashRedirect_RenderIndex(handler, msg, completion, images) ==
    [NoResponse EXCEPT !.handler = handler, !.kind = "render", !.status = 200,
                       !.flash = msg, !.target = "index.html",
                       !.completion_calls = completion, !.image_calls = images]

\* flash(msg, 'error'); return redirect(url_for('index'))
FlashRedirect(handler, msg, completion, images) ==
    [NoResponse EXCEPT !.handler = handler, !.kind = "redirect", !.status = 302,
                       !.flash = msg, !.target = "index",
                       !.completion_calls = completion, !.image_calls = images]

\* return jsonify({'error': msg}), 400
JsonError(handler, msg) ==
    [NoResponse EXCEPT !.handler = handler, !.kind = "json", !.status = 400,
                       !.target = msg]

\* the except clauses of generate_posts (main.py 76-82)
ExceptFlash(exc) ==
    IF exc = "ValueError" THEN MsgInvalidNumber ELSE MsgSorry

MergeUploads_None(posts, uploads) == posts

\* for i, post in enumerate(posts): if str(i) in uploaded_images: ... (main.py 64-67)
MergeUploads(posts, uploads) ==
    [i \in 1..Len(posts) |->
        IF (i - 1) \in DOMAIN uploads
        THEN [posts[i] EXCEPT !.image_url = UploadedUrl(uploads[i - 1])]
        ELSE posts[i]]

(***************************************************************************)
(* The request handlers.                                                   *)
(***************************************************************************)
GenerateRequest(menu_raw, num_raw, api_kind) ==
    [NoRequest EXCEPT !.handler = "generate_posts", !.menu_text = menu_raw,
                      !.num_posts = num_raw, !.api = api_kind]

\* a generate_posts request that ends in flash-and-redirect: the session is not written
GenerateFails_DropsPosts(req, msg, completion, images) ==
    /\ request' = req
    /\ response' = FlashRedirect("generate_posts", msg, completion, images)
    /\ current_posts' = <<>>
    /\ sessionKeys' = sessionKeys \ {"current_posts"}
    /\ UNCHANGED <<current_menu_text, current_language, uploaded_images, uuidCount,
                   lastGood, call>>

GenerateFails(req, msg, completion, images) ==
    /\ request' = req
    /\ response' = FlashRedirect("generate_posts", msg, completion, images)
    /\ UNCHANGED <<sessionVars, uuidCount, lastGood, call>>

\* the session write and the page of a successful generation (main.py 63-74)
GenerateSucceeds(req, menu_text, language, r, posts) ==
    /\ current_posts' = posts
    /\ current_menu_text' = menu_text
    /\ current_language' = language
    /\ sessionKeys' = sessionKeys \cup
          {"current_posts", "current_menu_text", "current_language"}
    /\ request' = req
    /\ response' =
          [NoResponse EXCEPT
              !.handler = "generate_posts", !.kind = "render",
              !.status = 200, !.target = "results.html",
              !.posts = posts,
              !.completion_calls = r.completion_calls,
              !.image_calls = r.image_calls]
    /\ lastGood' = posts
    /\ UNCHANGED <<uploaded_images, uuidCount, call>>

\* generate_posts from the generator's return or exception on (main.py 57-82)
GenerateCalled(req, menu_text, language, r) ==
    IF r.raised
    THEN GenerateFails(req, ExceptFlash(r.exc), r.completion_calls, r.image_calls)
    ELSE IF r.posts = <<>>
    THEN GenerateFails(req, MsgNoPosts, r.completion_calls, r.image_calls)
    ELSE GenerateSucceeds(req, menu_text, language, r,
             MergeUploads(r.posts, IF "uploaded_images" \in sessionKeys
                                   THEN uploaded_images ELSE <<>>))

ValidationError_NoRange(menu_text, num_posts) ==
    IF menu_text = <<>> THEN MsgNoMenu ELSE ""

\* the input validation (main.py 44-51): the message to flash, "" for valid input
ValidationError(menu_text, num_posts) ==
    IF menu_text = <<>> THEN MsgNoMenu
    ELSE IF num_posts < MinPosts \/ num_posts > MaxPosts THEN MsgRange
    ELSE ""

\* POST /generate (main.py 35-82)
generate_posts ==
    \E menu_raw \in MenuInputs, num_raw \in NumInputs :
        IF ~ParseInt(num_raw).ok
        THEN GenerateFails(GenerateRequest(menu_raw, num_raw, ""),
                           ExceptFlash("ValueError"), 0, 0)
        ELSE IF ValidationError(Strip(menu_raw), ParseInt(num_raw).value) # ""
        THEN GenerateFails(GenerateRequest(menu_raw, num_raw, ""),
                           ValidationError(Strip(menu_raw), ParseInt(num_raw).value), 0, 0)
        ELSE \E language \in LangInputs, ab_test_mode \in BOOLEAN, api \in SessionApis :
             \E img \in SessionImgs(3 + PostsNeeded(ParseInt(num_raw).value, ab_test_mode)) :
                 GenerateCalled(GenerateRequest(menu_raw, num_raw, api.kind),
                                Strip(menu_raw), language,
                                generate_multiple_social_media_posts(
                                    ParseInt(num_raw).value, language, ab_test_mode, api, img))

UploadRequest(post_index, file) ==
    [NoRequest EXCEPT !.handler = "upload_image", !.post_index = post_index, !.file = file]

\* an upload_image request that stores nothing
UploadFails(req, resp) ==
    /\ request' = req
    /\ response' = resp
    /\ UNCHANGED <<sessionVars, uuidCount, lastGood, call>>

SetImage(posts, post_index, filename) ==
    IF Len(posts) > post_index
    THEN [posts EXCEPT ![post_index + 1].image_url = UploadedUrl(filename)]
    ELSE posts

\* POST /upload_image/<int:post_index> (main.py 88-117); saved is whether file.save succeeds
upload_image ==
    \E post_index \in 0..MaxIndex, file \in FileInputs, saved \in BOOLEAN :
        LET req == UploadRequest(post_index, file)
        IN IF ~file.present \/ file.filename = <<>>
           THEN UploadFails(req, JsonError("upload_image", "No file selected"))
           ELSE IF ~allowed_file(file.filename)
           THEN UploadFails(req, JsonError("upload_image", "Invalid file type"))
           ELSE IF ~saved
           THEN UploadFails(req, [NoResponse EXCEPT !.handler = "upload_image",
                                     !.kind = "error", !.status = 500])
           ELSE /\ uuidCount < MaxUploads
                /\ LET filename == UploadName(uuidCount + 1, file.filename)
                       uploads == IF "uploaded_images" \in sessionKeys
                                  THEN uploaded_images ELSE <<>>
                   IN /\ uploaded_images' =
                            [i \in DOMAIN uploads \cup {post_index} |->
                                IF i = post_index THEN filename ELSE uploads[i]]
                      /\ sessionKeys' = sessionKeys \cup {"uploaded_images"}
                      /\ current_posts' =
                            IF "current_posts" \in sessionKeys
                            THEN SetImage(current_posts, post_index, filename)
                            ELSE current_posts
                      /\ lastGood' = SetImage(lastGood, post_index, filename)
                      /\ response' =
                            [NoResponse EXCEPT !.handler = "upload_image", !.kind = "json",
                                               !.status = 200, !.url = UploadedUrl(filename)]
                /\ uuidCount' = uuidCount + 1
                /\ request' = req
                /\ UNCHANGED <<current_menu_text, current_language, call>>

CsvHeader ==
    <<"Post_Index", "Caption_EN", "Caption_DE", "Hashtags", "Image_URL", "Image_Prompt">>

\* csv.writer writes None as the empty field
CsvUrl(image_url) ==
    IF image_url = NoneUrl THEN [kind |-> "", id |-> 0, ext |-> <<>>] ELSE image_url

CsvRow_ZeroBased(i, post) ==
    <<ToString(i - 1), post.caption,
      IF post.has_caption_german THEN post.caption_german ELSE "",
      Join(<<",", " ">>, post.hashtags), CsvUrl(post.image_url), post.image_prompt>>

\* the row written for posts[i - 1] (main.py 145-152)
CsvRow(i, post) ==
    <<ToString(i), post.caption,
      IF post.has_caption_german THEN post.caption_german ELSE "",
      Join(<<",", " ">>, post.hashtags), CsvUrl(post.image_url), post.image_prompt>>

\* GET /export_posts?format=... (main.py 124-175)
export_posts ==
    \E format_type \in Formats :
        LET posts == IF "current_posts" \in sessionKeys THEN current_posts ELSE <<>>
            file == [NoResponse EXCEPT !.handler = "export_posts", !.kind = "file",
                                       !.status = 200]
        IN /\ request' = [NoRequest EXCEPT !.handler = "export_posts", !.format = format_type]
           /\ response' =
                IF posts = <<>>
                THEN FlashRedirect("export_posts", MsgNoExport, 0, 0)
                ELSE IF format_type = "csv"
                THEN [file EXCEPT
                        !.target = "social_media_posts.csv",
                        !.body = [NoBody EXCEPT !.csv =
                            <<CsvHeader>> \o [i \in 1..Len(posts) |-> CsvRow(i, posts[i])]]]
                ELSE [file EXCEPT
                        !.target = "social_media_posts.json",
                        !.body = [NoBody EXCEPT
                            !.json_posts = posts,
                            !.menu_text = IF "current_menu_text" \in sessionKeys
                                          THEN current_menu_text ELSE <<>>,
                            !.language = IF "current_language" \in sessionKeys
                                         THEN current_language ELSE "english"]]
           /\ UNCHANGED <<sessionVars, uuidCount, lastGood, call>>

\* GET / (main.py 30-33)
index ==
    /\ request' = [NoRequest EXCEPT !.handler = "index"]
    /\ response' = [NoResponse EXCEPT !.handler = "index", !.kind = "render",
                                      !.status = 200, !.target = "index.html"]
    /\ UNCHANGED <<sessionVars, uuidCount, lastGood, call>>

Init == SessionInit /\ call = NoCall

Next == generate_posts \/ upload_image \/ export_posts \/ index

Spec == Init /\ [][Next]_vars

(***************************************************************************)
(* Properties of the request handlers.                                     *)
(***************************************************************************)
Handlers == {"generate_posts", "upload_image", "export_posts"}

Succeeded ==
    \/ response.handler = "generate_posts" /\ response.kind = "render"
    \/ response.handler = "upload_image" /\ response.status = 200
    \/ response.handler = "export_posts" /\ response.kind = "file"

IsFlashRedirect ==
    response.kind = "redirect" /\ response.flash # "" /\ response.target = "index"

\* the request failed on its input or on the completion API (not on storing a file)
FailedOnInputOrApi ==
    response.handler \in Handlers /\ ~Succeeded /\ response.status # 500

\* C3 as stated: in generate_posts, upload_image and export_posts alike, every
\* failure outcome ends as a flash message followed by a redirect to the index page.
C3_EveryFailureFlashRedirect == FailedOnInputOrApi => IsFlashRedirect

RejectedUpload ==
    /\ request.handler = "upload_image"
    /\ \/ ~request.file.present
       \/ request.file.filename = <<>>
       \/ ~allowed_file(request.file.filename)

\* C3 amended: every failure of generate_posts and export_posts ends as a flash
\* message followed by a redirect to the index page; upload_image answers bad
\* input with a JSON error of status 400, without flash or redirect.
C3_FailureByHandler ==
    /\ (response.handler \in {"generate_posts", "export_posts"} /\ ~Succeeded)
          => IsFlashRedirect
    /\ RejectedUpload
          => (response.kind = "json" /\ response.status = 400 /\ response.flash = "")

\* a generation that failed on a malformed answer of the completion API
C3_Witness ==
    /\ response.handler = "generate_posts"
    /\ request.api = "bad_json"
    /\ IsFlashRedirect

\* C5: with a non-empty current_posts in the session, export_posts emits the posts
\* one-to-one and in order: the CSV is the header row and one row per post with
\* Post_Index 1..n, the JSON's posts list is current_posts; the session is unchanged.
C5_ExportOneToOne ==
    /\ [][response'.handler = "export_posts" => UNCHANGED sessionVars]_vars
    /\ [](  (/\ response.handler = "export_posts"
             /\ "current_posts" \in sessionKeys
             /\ current_posts # <<>>)
          => /\ response.kind = "file"
             /\ request.format = "csv" =>
                  LET rows == response.body.csv
                  IN /\ Len(rows) = Len(current_posts) + 1
                     /\ rows[1] = CsvHeader
                     /\ \A k \in 1..Len(current_posts) :
                          /\ rows[k + 1][1] = ToString(k)
                          /\ rows[k + 1][2] = current_posts[k].caption
                          /\ rows[k + 1][4] = Join(<<",", " ">>, current_posts[k].hashtags)
                          /\ rows[k + 1][5].kind =
                               (IF current_posts[k].image_url = NoneUrl THEN ""
                                ELSE current_posts[k].image_url.kind)
                          /\ rows[k + 1][5].id = current_posts[k].image_url.id
                          /\ rows[k + 1][6] = current_posts[k].image_prompt
             /\ request.format # "csv" => response.body.json_posts = current_posts)

\* a CSV export of several posts, one of them without an image
C5_Witness ==
    /\ response.handler = "export_posts"
    /\ response.kind = "file"
    /\ request.format = "csv"
    /\ Len(current_posts) >= 2
    /\ Len(response.body.csv) = Len(current_posts) + 1
    /\ \E k \in 1..Len(current_posts) : current_posts[k].image_url = NoneUrl

\* C6: generate_posts flashes 'Invalid number of posts' only when num_posts does
\* not parse as an integer; a failure of the completion API or a malformed answer
\* is flashed as 'Sorry, we encountered an issue generating your posts'.
C6_InvalidNumberOnlyForBadNumber ==
    response.handler = "generate_posts" =>
        /\ response.flash = MsgInvalidNumber => ~ParseInt(request.num_posts).ok
        /\ request.api \in {"api_error", "bad_json"} => response.flash = MsgSorry

\* C8: a generate_posts request with a menu text that is empty after trimming, or
\* with an integer num_posts outside 1..10, calls neither API, flashes an error
\* and redirects to the index page.
C8_InvalidInputCallsNoApi ==
    (/\ request.handler = "generate_posts"
     /\ \/ Strip(request.menu_text) = <<>>
        \/ /\ ParseInt(request.num_posts).ok
           /\ ParseInt(request.num_posts).value \notin 1..10)
    => /\ response.completion_calls = 0
       /\ response.image_calls = 0
       /\ IsFlashRedirect

\* a request with a menu and num_posts 11 was refused
C8_Witness ==
    /\ request.handler = "generate_posts"
    /\ Strip(request.menu_text) # <<>>
    /\ ParseInt(request.num_posts).ok
    /\ ParseInt(request.num_posts).value = 11
    /\ response.flash = MsgRange
    /\ response.completion_calls = 0

ExportedPosts(posts) ==
    IF request.format = "csv"
    THEN response.body.csv = <<CsvHeader>> \o [i \in 1..Len(posts) |-> CsvRow(i, posts[i])]
    ELSE response.body.json_posts = posts

C10_UploadsOverride ==
    /\ [](\A i \in DOMAIN uploaded_images :
             ("current_posts" \in sessionKeys /\ i < Len(current_posts))
                => current_posts[i + 1].image_url = UploadedUrl(uploaded_images[i]))
    /\ [][(response'.handler = "upload_image" /\ response'.status = 200)
            => /\ uploaded_images'[request'.post_index].id = uuidCount + 1
               /\ response'.url = UploadedUrl(uploaded_images'[request'.post_index])]_vars
    /\ [][(response'.handler = "upload_image" /\ response'.status = 400)
            => UNCHANGED sessionVars]_vars

\* a regeneration after two uploads for post 0 shows the second upload
C10_Witness ==
    /\ response.handler = "generate_posts"
    /\ response.kind = "render"
    /\ DOMAIN uploaded_images = {0}
    /\ uploaded_images[0].id = 2
    /\ response.image_calls > 0
    /\ current_posts[1].image_url = UploadedUrl(uploaded_images[0])

====
